---- MODULE Spec2Model ----
(***************************************************************************)
(* Blood-donation coordination backend (src/routes.js, src/models.js,      *)
(* src/unnamed/part_000 = utils.js).                                        *)
(*                                                                         *)
(* The document store is modelled as one variable per collection.  Every   *)
(* handler is cut at its awaits on the store: one action per store         *)
(* operation, so that two handlers interleave exactly where Node lets      *)
(* them.  The synchronous prefix of a handler (protect, restrictTo, body   *)
(* validation) is part of the action of its first store operation.         *)
(***************************************************************************)
EXTENDS Integers, Sequences, FiniteSets, TLC

----------------------------------------------------------------------------
(* Bounds of the model *)

MaxRequests == 2      \* Request documents ever created
MaxDeletes == 1       \* DELETE /admin/users/:id calls that remove a User
MaxDonations == 2     \* POST /donors/donate calls that reach the donor's profile
MaxUnits == 2         \* largest body.units of a donation
MaxUsers == 3         \* User _ids ever allocated in the registration scenario

Procs == {"h1", "h2"} \* handlers in flight at the same time

----------------------------------------------------------------------------
(* Value domains: src/models.js *)

Undef == "undefined"                    \* an absent JS value / missing body field

Roles == {"user", "donor", "admin"}
BloodTypes == {"O+", "A+"}              \* two of the eight enum values
Regions == {"North", "East"}            \* two of the four enum values
validStatuses == {"Pending", "Approved", "Fulfilled", "Critical"}

\* what callers put in body.status here: nothing, two of the valid values, and
\* a value outside the enum
StatusInputs == {Undef, "Approved", "Fulfilled", "Bogus"}

NoToken == [id |-> 0, role |-> "none"]  \* no bearer token, or one jwt.verify rejects

NoApprover == [name |-> Undef, phone |-> Undef]

NoDate == 0                             \* last_donation_date: null; dates count from 1

----------------------------------------------------------------------------
VARIABLES
  users,          \* User collection: _id -> document
  donors,         \* Donor collection, keyed by its unique user_id
  inventory,      \* BloodInventory collection, keyed by its unique blood_type
  requests,       \* Request collection: _id -> document, _ids in creation order
  notifications,  \* Notification collection in creation order
  tokens,         \* the {id, role} payloads of the tokens issued so far
  nextUserId,     \* next fresh User _id
  clock,          \* new Date()
  pc,             \* per handler: the store operation it awaits next
  loc,            \* per handler: its local variables
  out             \* the response being sent, NoOut when none is

vars == <<users, donors, inventory, requests, notifications, tokens,
          nextUserId, clock, pc, loc, out>>

Idle == [op |-> "none"]
NoOut == [op |-> "none"]

----------------------------------------------------------------------------
(* sendResponse, protect, restrictTo *)

\* the envelope { success, message, data } with its HTTP status, together with
\* the call it answers: the route, req.user and the body or params
Envelope(op, tok, body, status, message, data) ==
  [op |-> op, tok |-> tok, body |-> body,
   status |-> status, message |-> message, data |-> data]

\* the handler h awaits the store operation label, and no response is in the
\* way of its running
At(h, label) == out = NoOut /\ pc[h] = label

\* the handler h answers and is free again
Reply(h, op, tok, body, status, message, data) ==
  /\ pc' = [pc EXCEPT ![h] = "idle"]
  /\ loc' = [loc EXCEPT ![h] = Idle]
  /\ out' = Envelope(op, tok, body, status, message, data)

\* res.json has flushed the response; the handlers run on
Sent ==
  /\ out # NoOut
  /\ out' = NoOut
  /\ UNCHANGED <<users, donors, inventory, requests, notifications, tokens,
                 nextUserId, clock, pc, loc>>

\* the handler h goes on to its next await
Goto(h, label, locals) ==
  /\ pc' = [pc EXCEPT ![h] = label]
  /\ loc' = [loc EXCEPT ![h] = locals]
  /\ out' = NoOut

\* a handler steps only while no other handler is between its first and its
\* last store operation: the calls run one after the other
Alone(h) == \A g \in Procs \ {h} : pc[g] = "idle"

protect(tok) == tok # NoToken

\* (a bug: the role is not compared)
restrictTo_Any(roles, tok) == TRUE

restrictTo(roles, tok) == tok.role \in roles

\* 0 when the middleware chain lets the call through, else the status it answers
Gate(tok, roles) ==
  IF ~protect(tok) THEN 401
  ELSE IF ~restrictTo(roles, tok) THEN 403
  ELSE 0

GateMessage(code) ==
  IF code = 401 THEN "Not authorized, no token"
  ELSE "Forbidden: You do not have permission"

AnyRole == {t.role : t \in tokens}

Remove(f, k) == [x \in DOMAIN f \ {k} |-> f[x]]

Put(f, k, v) == [x \in DOMAIN f \cup {k} |-> IF x = k THEN v ELSE f[x]]

RECURSIVE Copies(_, _)
Copies(n, v) == IF n = 0 THEN <<>> ELSE <<v>> \o Copies(n - 1, v)

----------------------------------------------------------------------------
(* POST /auth/register *)

UserDoc(full_name, email, phone, role, blood_type, region) ==
  [full_name |-> full_name, email |-> email, phone |-> phone, role |-> role,
   blood_type |-> blood_type, region |-> region]

\* Donor.create({ user_id }): the schema defaults
NewDonor == [availability |-> TRUE, last_donation_date |-> NoDate,
             reputation |-> 5, donation_log |-> <<>>]

\* User.findOne({ email }) finds a document; also what the unique index on
\* email refuses
EmailTaken(email) == \E u \in DOMAIN users : users[u].email = email

\* if (role !== "admin" && region) userData.region = region
RegionStored(role, region) == IF role # "admin" THEN region ELSE Undef

\* UserSchema: region is required unless the role is admin
UserValid(role, region) ==
  /\ role \in Roles
  /\ role # "admin" => region # Undef

\* the 400 check and User.findOne({ email }).  The body is one of the people
\* applying, with a role, a blood type (or none) and a region (or none).
RegisterFind(h, people, roles, groups, regions) ==
  /\ At(h, "idle")
  /\ \E who \in people, role \in roles, blood_type \in groups \cup {Undef},
        region \in regions \cup {Undef} :
       LET body == [full_name |-> who.full_name, email |-> who.email,
                    phone |-> who.phone, role |-> role,
                    blood_type |-> blood_type, region |-> region] IN
       IF blood_type = Undef
       THEN Reply(h, "register", NoToken, body, 400, "Missing required fields", Undef)
       ELSE IF EmailTaken(who.email)
       THEN Reply(h, "register", NoToken, body, 409, "User already exists", Undef)
       ELSE Goto(h, "rg_create", [op |-> "register", body |-> body])
  /\ UNCHANGED <<users, donors, inventory, requests, notifications, tokens,
                 nextUserId, clock>>

\* what the catch block answers when User.create throws on the unique index
DuplicateKeyStatus == 500

\* sendResponse(..., 201) with generateToken({ id, role })
Registered(h, id) ==
  /\ tokens' = tokens \cup {[id |-> id, role |-> loc[h].body.role]}
  /\ Reply(h, "register", NoToken, loc[h].body, 201, "Registration successful",
           [id |-> id, role |-> loc[h].body.role])

\* User.create(userData): schema validation, then the insert under the unique
\* index on email
RegisterCreate(h) ==
  /\ At(h, "rg_create")
  /\ LET b == loc[h].body IN
     IF ~UserValid(b.role, b.region)
     THEN /\ Reply(h, "register", NoToken, b, 500, "User validation failed", Undef)
          /\ UNCHANGED <<users, nextUserId, tokens>>
     ELSE IF EmailTaken(b.email)
     THEN /\ Reply(h, "register", NoToken, b, DuplicateKeyStatus,
                   "E11000 duplicate key", Undef)
          /\ UNCHANGED <<users, nextUserId, tokens>>
     ELSE /\ nextUserId <= MaxUsers
          /\ users' = Put(users, nextUserId,
                          UserDoc(b.full_name, b.email, b.phone, b.role,
                                  b.blood_type, RegionStored(b.role, b.region)))
          /\ nextUserId' = nextUserId + 1
          /\ IF b.role = "donor"
             THEN /\ Goto(h, "rg_donor", loc[h] @@ [id |-> nextUserId])
                  /\ UNCHANGED tokens
             ELSE Registered(h, nextUserId)
  /\ UNCHANGED <<donors, inventory, requests, notifications, clock>>

\* Donor.create({ user_id: newUser._id })
RegisterDonor(h) ==
  /\ At(h, "rg_donor")
  /\ donors' = Put(donors, loc[h].id, NewDonor)
  /\ Registered(h, loc[h].id)
  /\ UNCHANGED <<users, inventory, requests, notifications, nextUserId, clock>>

----------------------------------------------------------------------------
(* POST /requests *)

\* Request.create: the schema default fills a missing status
NewRequest(requester, blood_group, region, status) ==
  [requester_id |-> requester,
   blood_group |-> blood_group,
   region |-> region,
   status |-> IF status = Undef THEN "Pending" ELSE status,
   approved_by |-> NoApprover]

\* (a bug: the region is left out of the query)
MatchingDonors_AnyRegion(blood_group, region) ==
  {u \in DOMAIN users : /\ users[u].role = "donor"
                        /\ users[u].blood_type = blood_group}

\* User.find({ role: "donor", blood_type: blood_group, region })
MatchingDonors(blood_group, region) ==
  {u \in DOMAIN users : /\ users[u].role = "donor"
                        /\ users[u].blood_type = blood_group
                        /\ users[u].region = region}

\* a fresh Request _id: documents are never removed, so _ids count up
NextRequestId == Cardinality(DOMAIN requests) + 1

RequestNotification(region) == [role |-> "donor", region |-> region]

\* req.body of POST /requests, as the handler destructures it
SubmitBody(blood_group, region) == [blood_group |-> blood_group, region |-> region]

\* protect, restrictTo(["user"]), the 400 check, Request.create
\* (the body fields are drawn from the sets the scenario offers)
SubmitCreate(h, groups, regions, statuses) ==
  /\ At(h, "idle")
  /\ \E tok \in tokens \cup {NoToken},
        blood_group \in groups \cup {Undef},
        region \in regions \cup {Undef},
        status \in statuses :
       LET gate == Gate(tok, {"user"}) IN
       IF gate # 0
       THEN /\ Reply(h, "submitRequest", tok, SubmitBody(blood_group, region),
                     gate, GateMessage(gate), Undef)
            /\ UNCHANGED requests
       ELSE IF blood_group = Undef \/ region = Undef
       THEN /\ Reply(h, "submitRequest", tok, SubmitBody(blood_group, region), 400,
                     "Blood group and region are required", Undef)
            /\ UNCHANGED requests
       ELSE IF status \notin validStatuses \cup {Undef}
       THEN \* the schema enum rejects the document: Request.create throws
            /\ Reply(h, "submitRequest", tok, SubmitBody(blood_group, region),
                     500, "Request validation failed", Undef)
            /\ UNCHANGED requests
       ELSE /\ NextRequestId <= MaxRequests
            /\ requests' = Put(requests, NextRequestId,
                               NewRequest(tok.id, blood_group, region, status))
            /\ Goto(h, "sr_find",
                    [op |-> "submitRequest", tok |-> tok, rid |-> NextRequestId,
                     blood_group |-> blood_group, region |-> region])
  /\ UNCHANGED <<users, donors, inventory, notifications, tokens, nextUserId, clock>>

\* User.find of the matching donors; with none the handler answers at once
SubmitFind(h) ==
  /\ At(h, "sr_find")
  /\ LET donorUsers == MatchingDonors(loc[h].blood_group, loc[h].region) IN
     IF donorUsers = {}
     THEN Reply(h, "submitRequest", loc[h].tok, SubmitBody(loc[h].blood_group, loc[h].region),
                201,
                "Blood request submitted", loc[h].rid)
     ELSE Goto(h, "sr_insert",
               loc[h] @@ [donorUsers |-> donorUsers])
  /\ UNCHANGED <<users, donors, inventory, requests, notifications, tokens,
                 nextUserId, clock>>

\* (a bug: the catch block deletes the request it created)
SubmitCatch_Rollback(h) == Remove(requests, loc[h].rid)

\* what the catch block of POST /requests does to the Request collection
SubmitCatch(h) == requests

\* what the handler answers when Notification.insertMany has thrown
SubmitCatchReply(h) ==
  Envelope("submitRequest", loc[h].tok, SubmitBody(loc[h].blood_group, loc[h].region),
           500, "insertMany failed", Undef)

\* Notification.insertMany: all written, or an ordered insert that stops at the
\* first document the store refuses
SubmitInsert(h) ==
  /\ At(h, "sr_insert")
  /\ LET n == Cardinality(loc[h].donorUsers)
         doc == RequestNotification(loc[h].region) IN
     \/ /\ notifications' = notifications \o Copies(n, doc)
        /\ requests' = requests
        /\ Reply(h, "submitRequest", loc[h].tok, SubmitBody(loc[h].blood_group, loc[h].region),
                 201,
                 "Blood request submitted", loc[h].rid)
     \/ \E written \in 0..(n - 1) :
          /\ notifications' = notifications \o Copies(written, doc)
          /\ requests' = SubmitCatch(h)
          /\ pc' = [pc EXCEPT ![h] = "idle"]
          /\ loc' = [loc EXCEPT ![h] = Idle]
          /\ out' = SubmitCatchReply(h)
  /\ UNCHANGED <<users, donors, inventory, tokens, nextUserId, clock>>

----------------------------------------------------------------------------
(* POST /requests/:id/status *)

\* req.params.id and req.body.status
StatusBody(id, status) == [id |-> id, status |-> status]

\* protect, the validStatuses check, Request.findById
UpdateStatusFind(h, statuses) ==
  /\ At(h, "idle")
  /\ \E tok \in tokens \cup {NoToken}, id \in 1..MaxRequests, status \in statuses :
       LET gate == Gate(tok, AnyRole) IN
       IF gate # 0
       THEN Reply(h, "updateRequestStatus", tok, StatusBody(id, status),
                  gate, GateMessage(gate), Undef)
       ELSE IF status = Undef \/ status \notin validStatuses
       THEN Reply(h, "updateRequestStatus", tok, StatusBody(id, status),
                  400, "Invalid status", Undef)
       ELSE IF id \notin DOMAIN requests
       THEN Reply(h, "updateRequestStatus", tok, StatusBody(id, status),
                  404, "Request not found", Undef)
       ELSE IF status = "Approved"
       THEN Goto(h, "us_approver",
                 [op |-> "updateRequestStatus", tok |-> tok, rid |-> id,
                  status |-> status])
       ELSE Goto(h, "us_save",
                 [op |-> "updateRequestStatus", tok |-> tok, rid |-> id,
                  status |-> status, stamp |-> FALSE])
  /\ UNCHANGED <<users, donors, inventory, requests, notifications, tokens,
                 nextUserId, clock>>

\* the approved_by the handler builds from the approver it read
ApproverSnapshot(approver) == [name |-> approver.full_name, phone |-> approver.phone]

\* User.findById(req.user.id); approver.full_name of null throws
UpdateStatusApprover(h) ==
  /\ At(h, "us_approver")
  /\ IF loc[h].tok.id \notin DOMAIN users
     THEN Reply(h, "updateRequestStatus", loc[h].tok, StatusBody(loc[h].rid, loc[h].status),
                500,
                "Cannot read properties of null", Undef)
     ELSE Goto(h, "us_save",
               [op |-> "updateRequestStatus", tok |-> loc[h].tok, rid |-> loc[h].rid,
                status |-> loc[h].status, stamp |-> TRUE,
                approved_by |-> ApproverSnapshot(users[loc[h].tok.id])])
  /\ UNCHANGED <<users, donors, inventory, requests, notifications, tokens,
                 nextUserId, clock>>

\* request.save(): Mongoose writes the paths the handler assigned, status always
\* and approved_by only when it was stamped
SavedRequest(doc, l) ==
  [doc EXCEPT !.status = l.status,
              !.approved_by = IF l.stamp THEN l.approved_by ELSE @]

UpdateStatusSave(h) ==
  /\ At(h, "us_save")
  /\ requests' = [requests EXCEPT ![loc[h].rid] = SavedRequest(@, loc[h])]
  /\ Reply(h, "updateRequestStatus", loc[h].tok, StatusBody(loc[h].rid, loc[h].status),
           200,
           "Request status updated successfully", loc[h].rid)
  /\ UNCHANGED <<users, donors, inventory, notifications, tokens, nextUserId, clock>>

----------------------------------------------------------------------------
(* PUT /admin/requests/:id/status *)

\* Request.findByIdAndUpdate(id, { status }): no validators run, an undefined
\* status is dropped from the update
OverriddenRequest(doc, status) ==
  IF status = Undef THEN doc ELSE [doc EXCEPT !.status = status]

AdminSetRequestStatus(h, statuses) ==
  /\ At(h, "idle")
  /\ \E tok \in tokens \cup {NoToken}, id \in 1..MaxRequests, status \in statuses :
       LET gate == Gate(tok, {"admin"}) IN
       IF gate # 0
       THEN /\ Reply(h, "adminSetRequestStatus", tok, StatusBody(id, status),
                     gate, GateMessage(gate), Undef)
            /\ UNCHANGED requests
       ELSE IF id \notin DOMAIN requests
       THEN /\ Reply(h, "adminSetRequestStatus", tok, StatusBody(id, status),
                     200, "Request status updated",
                     Undef)
            /\ UNCHANGED requests
       ELSE /\ requests' = [requests EXCEPT ![id] = OverriddenRequest(@, status)]
            /\ Reply(h, "adminSetRequestStatus", tok, StatusBody(id, status),
                     200, "Request status updated", id)
  /\ UNCHANGED <<users, donors, inventory, notifications, tokens, nextUserId, clock>>

----------------------------------------------------------------------------
(* GET /requests, GET /requests/user *)

RECURSIVE NewestFirst(_)
\* .sort({ createdAt: -1 }) of a set of Request _ids
NewestFirst(ids) ==
  IF ids = {} THEN <<>>
  ELSE LET m == CHOOSE x \in ids : \A y \in ids : y <= x
       IN <<m>> \o NewestFirst(ids \ {m})

RECURSIVE NaturalOrder(_)
\* the store's natural order of a set of Request _ids
NaturalOrder(ids) ==
  IF ids = {} THEN <<>>
  ELSE LET m == CHOOSE x \in ids : \A y \in ids : x <= y
       IN <<m>> \o NaturalOrder(ids \ {m})

\* Request.find({ requester_id: req.user.id })
RequestsOf(requester) == {r \in DOMAIN requests : requests[r].requester_id = requester}

\* (a bug: the donor branch queries all requests)
RequestsIn_Any(region) == DOMAIN requests

\* Request.find({ region: donor.region })
RequestsIn(region) == {r \in DOMAIN requests : requests[r].region = region}

\* protect and the first query of GET /requests: Request.find for an admin and
\* for a plain user, User.findById for a donor
ListRequests(h) ==
  /\ At(h, "idle")
  /\ \E tok \in tokens \cup {NoToken} :
       LET gate == Gate(tok, AnyRole) IN
       IF gate # 0
       THEN Reply(h, "listRequests", tok, Undef, gate, GateMessage(gate), Undef)
       ELSE IF tok.role = "admin"
       THEN Reply(h, "listRequests", tok, Undef, 200, "Requests fetched successfully",
                  NewestFirst(DOMAIN requests))
       ELSE IF tok.role = "donor"
       THEN IF tok.id \notin DOMAIN users
            THEN Reply(h, "listRequests", tok, Undef,
                       500, "Cannot read properties of null",
                       Undef)
            ELSE IF users[tok.id].region = Undef
            THEN Reply(h, "listRequests", tok, Undef, 400, "Donor region not set", Undef)
            ELSE Goto(h, "lr_find",
                      [op |-> "listRequests", tok |-> tok,
                       region |-> users[tok.id].region])
       ELSE Reply(h, "listRequests", tok, Undef, 200, "Requests fetched successfully",
                  NewestFirst(RequestsOf(tok.id)))
  /\ UNCHANGED <<users, donors, inventory, requests, notifications, tokens,
                 nextUserId, clock>>

\* the donor branch's Request.find({ region: donor.region })
ListRequestsFind(h) ==
  /\ At(h, "lr_find")
  /\ Reply(h, "listRequests", loc[h].tok, Undef, 200, "Requests fetched successfully",
           NewestFirst(RequestsIn(loc[h].region)))
  /\ UNCHANGED <<users, donors, inventory, requests, notifications, tokens,
                 nextUserId, clock>>

\* GET /requests/user
ListUserRequests(h) ==
  /\ At(h, "idle")
  /\ \E tok \in tokens \cup {NoToken} :
       LET gate == Gate(tok, {"user"}) IN
       IF gate # 0
       THEN Reply(h, "listUserRequests", tok, Undef, gate, GateMessage(gate), Undef)
       ELSE Reply(h, "listUserRequests", tok, Undef, 200, "Fetched user requests",
                  NaturalOrder(RequestsOf(tok.id)))
  /\ UNCHANGED <<users, donors, inventory, requests, notifications, tokens,
                 nextUserId, clock>>

----------------------------------------------------------------------------
(* DELETE /admin/users/:id *)

DeletedUsers == (nextUserId - 1) - Cardinality(DOMAIN users)

\* protect, restrictTo(["admin"]), User.findByIdAndDelete
DeleteUser(h) ==
  /\ At(h, "idle")
  /\ \E tok \in tokens \cup {NoToken}, id \in 1..(nextUserId - 1) :
       LET gate == Gate(tok, {"admin"}) IN
       IF gate # 0
       THEN /\ Reply(h, "deleteUser", tok, [id |-> id], gate, GateMessage(gate), Undef)
            /\ UNCHANGED users
       ELSE /\ id \in DOMAIN users => DeletedUsers < MaxDeletes
            /\ users' = Remove(users, id)
            /\ Goto(h, "du_donor", [op |-> "deleteUser", tok |-> tok, id |-> id])
  /\ UNCHANGED <<donors, inventory, requests, notifications, tokens, nextUserId, clock>>

\* Donor.deleteOne({ user_id })
DeleteDonor(h) ==
  /\ At(h, "du_donor")
  /\ donors' = Remove(donors, loc[h].id)
  /\ Reply(h, "deleteUser", loc[h].tok, [id |-> loc[h].id], 200, "User deleted", Undef)
  /\ UNCHANGED <<users, inventory, requests, notifications, tokens, nextUserId, clock>>

----------------------------------------------------------------------------
(* PUT /admin/users/:id *)

\* User.findByIdAndUpdate(id, { role }): no validators run, an undefined role
\* is dropped from the update; the Donor collection is not touched
UpdatedUser(doc, role) ==
  IF role = Undef THEN doc ELSE [doc EXCEPT !.role = role]

\* protect, restrictTo(["admin"]), User.findByIdAndUpdate
AdminSetUserRole(h, roles) ==
  /\ At(h, "idle")
  /\ \E tok \in tokens \cup {NoToken}, id \in 1..(nextUserId - 1), role \in roles :
       LET gate == Gate(tok, {"admin"})
           body == [id |-> id, role |-> role] IN
       IF gate # 0
       THEN /\ Reply(h, "adminSetUserRole", tok, body, gate, GateMessage(gate), Undef)
            /\ UNCHANGED users
       ELSE IF id \notin DOMAIN users
       THEN /\ Reply(h, "adminSetUserRole", tok, body, 200, "User updated", Undef)
            /\ UNCHANGED users
       ELSE /\ users' = [users EXCEPT ![id] = UpdatedUser(@, role)]
            /\ Reply(h, "adminSetUserRole", tok, body, 200, "User updated", id)
  /\ UNCHANGED <<donors, inventory, requests, notifications, tokens, nextUserId, clock>>

----------------------------------------------------------------------------
(* POST /donors/donate *)

\* const { units = 1 } = req.body
UnitsOf(given, units) == IF given THEN units ELSE 1

LogEntry(date, units) ==
  [date |-> date, units |-> units, notes |-> "Recorded via dashboard"]

\* protect, restrictTo(["donor"]), Donor.findOne; then new Date() and the push
\* onto the loaded document, up to the await of donor.save()
DonateFind(h) ==
  /\ At(h, "idle")
  /\ \E tok \in tokens \cup {NoToken}, given \in BOOLEAN, n \in 1..MaxUnits :
       LET gate == Gate(tok, {"donor"})
           units == UnitsOf(given, n) IN
       IF gate # 0
       THEN /\ Reply(h, "recordDonation", tok, [units |-> units],
                     gate, GateMessage(gate), Undef)
            /\ UNCHANGED clock
       ELSE IF tok.id \notin DOMAIN donors
       THEN /\ Reply(h, "recordDonation", tok, [units |-> units],
                     404, "Donor profile not found", Undef)
            /\ UNCHANGED clock
       ELSE /\ clock < MaxDonations
            /\ clock' = clock + 1
            /\ Goto(h, "dn_save",
                    [op |-> "recordDonation", tok |-> tok, units |-> units,
                     newDate |-> clock + 1,
                     donation_log |-> Append(donors[tok.id].donation_log,
                                             LogEntry(clock + 1, units))])
  /\ UNCHANGED <<users, donors, inventory, requests, notifications, tokens, nextUserId>>

\* (a bug: the entry is never pushed onto the stored log)
SavedDonor_NoPush(doc, l) == [doc EXCEPT !.last_donation_date = l.newDate]

\* donor.save(): a $push of the new entry and a $set of last_donation_date on
\* the stored document, which must still exist
SavedDonor(doc, l) ==
  [doc EXCEPT !.donation_log = Append(@, LogEntry(l.newDate, l.units)),
              !.last_donation_date = l.newDate]

DonateSave(h) ==
  /\ At(h, "dn_save")
  /\ IF loc[h].tok.id \notin DOMAIN donors
     THEN /\ Reply(h, "recordDonation", loc[h].tok, [units |-> loc[h].units],
                   500, "No document found", Undef)
          /\ UNCHANGED donors
     ELSE /\ donors' = [donors EXCEPT ![loc[h].tok.id] = SavedDonor(@, loc[h])]
          /\ Goto(h, "dn_user", loc[h])
  /\ UNCHANGED <<users, inventory, requests, notifications, tokens, nextUserId, clock>>

\* User.findById(req.user.id); user.blood_type of null throws
DonateUser(h) ==
  /\ At(h, "dn_user")
  /\ IF loc[h].tok.id \notin DOMAIN users
     THEN Reply(h, "recordDonation", loc[h].tok, [units |-> loc[h].units],
                500, "Cannot read properties of null",
                Undef)
     ELSE Goto(h, "dn_inventory",
               [loc[h] EXCEPT !.op = "recordDonation"]
                 @@ [blood_type |-> users[loc[h].tok.id].blood_type])
  /\ UNCHANGED <<users, donors, inventory, requests, notifications, tokens,
                 nextUserId, clock>>

\* BloodInventory.findOne({ blood_type }): the row and its units, or no row
DonateInventoryFind(h) ==
  /\ At(h, "dn_inventory")
  /\ Goto(h, "dn_write",
          loc[h] @@ [found |-> loc[h].blood_type \in DOMAIN inventory,
                     available_units |->
                       IF loc[h].blood_type \in DOMAIN inventory
                       THEN inventory[loc[h].blood_type] ELSE 0])
  /\ UNCHANGED <<users, donors, inventory, requests, notifications, tokens,
                 nextUserId, clock>>

\* (a bug: = in place of +=)
Credited_Overwritten(available_units, units) == units

\* inventory.available_units += units, on the document the handler loaded
Credited(available_units, units) == available_units + units

\* (not the code: an atomic $inc on the stored row)
SavedInventory_Inc(l) ==
  Put(inventory, l.blood_type, inventory[l.blood_type] + l.units)

\* inventory.save(): a $set of the units computed from the loaded document
SavedInventory(l) ==
  Put(inventory, l.blood_type, Credited(l.available_units, l.units))

\* the body of the 200 answer: the handler's in-memory donor and inventory
DonationData(l, available_units) ==
  [donation_log |-> l.donation_log, last_donation_date |-> l.newDate,
   blood_type |-> l.blood_type, available_units |-> available_units]

\* BloodInventory.create when no row was found, which the unique index on
\* blood_type refuses once a row exists; else inventory.save()
DonateInventoryWrite(h) ==
  /\ At(h, "dn_write")
  /\ LET l == loc[h] IN
     IF ~l.found
     THEN IF l.blood_type \in DOMAIN inventory
          THEN /\ Reply(h, "recordDonation", l.tok, [units |-> l.units],
                        500, "E11000 duplicate key", Undef)
               /\ UNCHANGED inventory
          ELSE /\ inventory' = Put(inventory, l.blood_type, l.units)
               /\ Reply(h, "recordDonation", l.tok, [units |-> l.units], 200,
                        "Donation recorded and inventory updated",
                        DonationData(l, l.units))
     ELSE /\ inventory' = SavedInventory(l)
          /\ Reply(h, "recordDonation", l.tok, [units |-> l.units], 200,
                   "Donation recorded and inventory updated",
                   DonationData(l, Credited(l.available_units, l.units)))
  /\ UNCHANGED <<users, donors, requests, notifications, tokens, nextUserId, clock>>

\* the store operations the handler awaits after Donor.findOne
DonateAwaits == {"dn_save", "dn_user", "dn_inventory", "dn_write"}

\* the awaited store operation throws (the store is unreachable, a write is
\* refused) having done nothing: the catch block answers 500
DonateFail(h) ==
  /\ out = NoOut
  /\ pc[h] \in DonateAwaits
  /\ Reply(h, "recordDonation", loc[h].tok, [units |-> loc[h].units],
           500, "store operation failed", Undef)
  /\ UNCHANGED <<users, donors, inventory, requests, notifications, tokens,
                 nextUserId, clock>>

----------------------------------------------------------------------------
(* PUT /donors/availability *)

\* protect, restrictTo(["donor"]), Donor.findOneAndUpdate({ user_id },
\* { availability }) with the body's value coerced to a boolean
SetAvailability(h) ==
  /\ At(h, "idle")
  /\ \E tok \in tokens \cup {NoToken}, availability \in BOOLEAN :
       LET gate == Gate(tok, {"donor"})
           body == [availability |-> availability] IN
       IF gate # 0
       THEN /\ Reply(h, "setAvailability", tok, body, gate, GateMessage(gate), Undef)
            /\ UNCHANGED donors
       ELSE IF tok.id \notin DOMAIN donors
       THEN /\ Reply(h, "setAvailability", tok, body, 404, "Donor profile not found",
                     Undef)
            /\ UNCHANGED donors
       ELSE /\ donors' = [donors EXCEPT ![tok.id].availability = availability]
            /\ Reply(h, "setAvailability", tok, body, 200, "Availability updated",
                     availability)
  /\ UNCHANGED <<users, inventory, requests, notifications, tokens, nextUserId, clock>>

----------------------------------------------------------------------------
(* PUT /admin/inventory/units *)

\* protect, restrictTo(["admin"]), BloodInventory.findOneAndUpdate({ blood_type },
\* { available_units: units }, { upsert: true })
AdminSetInventoryUnits(h, groups) ==
  /\ At(h, "idle")
  /\ \E tok \in tokens \cup {NoToken}, blood_type \in groups, units \in 0..MaxUnits :
       LET gate == Gate(tok, {"admin"})
           body == [blood_type |-> blood_type, units |-> units] IN
       IF gate # 0
       THEN /\ Reply(h, "adminSetInventoryUnits", tok, body, gate, GateMessage(gate),
                     Undef)
            /\ UNCHANGED inventory
       ELSE /\ inventory' = Put(inventory, blood_type, units)
            /\ Reply(h, "adminSetInventoryUnits", tok, body, 200,
                     "Inventory units updated", units)
  /\ UNCHANGED <<users, donors, requests, notifications, tokens, nextUserId, clock>>

----------------------------------------------------------------------------
(* Populated stores the scenarios start from: users that have registered, and
   the tokens still in the hands of their clients *)

\* seedAdmin
SeededAdmin == UserDoc("Admin", "admin@bl", "0000000000", "admin", "O+", Undef)

TokenOf(us, id) == [id |-> id, role |-> us[id].role]

\* the store after the users us registered, with the tokens of holders in hand
\* and the inventory rows inv
Populated(us, holders, inv) ==
  /\ users = us
  /\ donors = [u \in {u \in DOMAIN us : us[u].role = "donor"} |-> NewDonor]
  /\ inventory = inv
  /\ requests = <<>>
  /\ notifications = <<>>
  /\ tokens = {TokenOf(us, u) : u \in holders}
  /\ nextUserId = Len(us) + 1
  /\ clock = 0
  /\ pc = [h \in Procs |-> "idle"]
  /\ loc = [h \in Procs |-> Idle]
  /\ out = NoOut

----------------------------------------------------------------------------
(* Scenario: the status lifecycle of requests.  One requester, one donor and
   the admin act; every request is for O+ in North. *)

StatusUsers ==
  <<SeededAdmin,
    UserDoc("Asha", "asha@bl", "111", "user", "O+", "North"),
    UserDoc("Dev", "dev@bl", "333", "donor", "O+", "North")>>

InitStatus == Populated(StatusUsers, {1, 2}, <<>>)

HandlerStatus(h) ==
    \/ SubmitCreate(h, {"O+"}, {"North"}, StatusInputs)
    \/ SubmitFind(h)
    \/ SubmitInsert(h)
    \/ UpdateStatusFind(h, StatusInputs)
    \/ UpdateStatusApprover(h)
    \/ UpdateStatusSave(h)
    \/ AdminSetRequestStatus(h, StatusInputs)
    \/ DeleteUser(h)
    \/ DeleteDonor(h)

NextStatus ==
  \/ \E h \in Procs : HandlerStatus(h)
  \/ Sent

SpecStatus == InitStatus /\ [][NextStatus]_vars

----------------------------------------------------------------------------
(* Scenario: the notification fan-out of POST /requests.  Requests of both
   blood groups and regions meet donors that match, and users that differ in
   role, blood type or region. *)

FanoutUsers ==
  <<SeededAdmin,
    UserDoc("Asha", "asha@bl", "111", "user", "O+", "North"),
    UserDoc("Dev", "dev@bl", "333", "donor", "O+", "North"),
    UserDoc("Esha", "esha@bl", "444", "donor", "O+", "North"),
    UserDoc("Gita", "gita@bl", "555", "donor", "A+", "East")>>

InitFanout == Populated(FanoutUsers, {1, 2}, <<>>)

HandlerFanout(h) ==
    \/ SubmitCreate(h, BloodTypes, Regions, {Undef})
    \/ SubmitFind(h)
    \/ SubmitInsert(h)
    \/ DeleteUser(h)
    \/ DeleteDonor(h)

NextFanout ==
  \/ \E h \in Procs : HandlerFanout(h)
  \/ Sent

SpecFanout == InitFanout /\ [][NextFanout]_vars

----------------------------------------------------------------------------
(* Scenario: listing requests.  Two requesters in different regions, a donor
   in each region and the admin list the requests being submitted. *)

ListUsers ==
  <<SeededAdmin,
    UserDoc("Asha", "asha@bl", "111", "user", "O+", "North"),
    UserDoc("Ravi", "ravi@bl", "222", "user", "A+", "East"),
    UserDoc("Dev", "dev@bl", "333", "donor", "O+", "North"),
    UserDoc("Gita", "gita@bl", "555", "donor", "A+", "East")>>

InitList == Populated(ListUsers, {1, 2, 3, 4, 5}, <<>>)

HandlerList(h) ==
    \/ SubmitCreate(h, {"O+"}, Regions, {Undef})
    \/ SubmitFind(h)
    \/ SubmitInsert(h)
    \/ ListRequests(h)
    \/ ListRequestsFind(h)
    \/ ListUserRequests(h)
    \/ DeleteUser(h)
    \/ DeleteDonor(h)

NextList ==
  \/ \E h \in Procs : HandlerList(h)
  \/ Sent

SpecList == InitList /\ [][NextList]_vars

----------------------------------------------------------------------------
(* Scenario: donations.  Two O+ donors and one A+ donor record donations; the
   inventory has an O+ row (an admin has set it to 0 units) and no A+ row.
   The store answers every operation (no store fault, no admin at work). *)

DonationUsers ==
  <<SeededAdmin,
    UserDoc("Dev", "dev@bl", "333", "donor", "O+", "North"),
    UserDoc("Esha", "esha@bl", "444", "donor", "O+", "North"),
    UserDoc("Gita", "gita@bl", "555", "donor", "A+", "East")>>

DonationInventory == [b \in {"O+"} |-> 0]

InitDonation == Populated(DonationUsers, {2, 3, 4}, DonationInventory)

HandlerDonation(h) ==
    \/ DonateFind(h)
    \/ DonateSave(h)
    \/ DonateUser(h)
    \/ DonateInventoryFind(h)
    \/ DonateInventoryWrite(h)

NextDonation ==
  \/ \E h \in Procs : HandlerDonation(h)
  \/ Sent

SpecDonation == InitDonation /\ [][NextDonation]_vars

\* the same handlers run one after the other
NextDonationSeq ==
  \/ \E h \in Procs :
       \/ Alone(h) /\ DonateFind(h)
       \/ Alone(h) /\ DonateSave(h)
       \/ Alone(h) /\ DonateUser(h)
       \/ Alone(h) /\ DonateInventoryFind(h)
       \/ Alone(h) /\ DonateInventoryWrite(h)
  \/ Sent

SpecDonationSeq == InitDonation /\ [][NextDonationSeq]_vars

----------------------------------------------------------------------------
(* Scenario: donations on a store that can fail.  The donors of the donation
   scenario record donations in flight together; any store operation a
   handler awaits may throw, and the admin deletes users meanwhile. *)

InitDonationFaulty == Populated(DonationUsers, {1, 2, 3}, DonationInventory)

HandlerDonationFaulty(h) ==
    \/ DonateFind(h)
    \/ DonateSave(h)
    \/ DonateUser(h)
    \/ DonateInventoryFind(h)
    \/ DonateInventoryWrite(h)
    \/ DonateFail(h)
    \/ DeleteUser(h)
    \/ DeleteDonor(h)

NextDonationFaulty ==
  \/ \E h \in Procs : HandlerDonationFaulty(h)
  \/ Sent

SpecDonationFaulty == InitDonationFaulty /\ [][NextDonationFaulty]_vars

----------------------------------------------------------------------------
(* Scenario: registration.  The store holds the seeded admin; two people
   apply, each possibly more than once and at the same time. *)

Applicants ==
  {[full_name |-> "Asha", email |-> "asha@bl", phone |-> "111"],
   [full_name |-> "Dev", email |-> "dev@bl", phone |-> "333"]}

InitRegister == Populated(<<SeededAdmin>>, {}, <<>>)

HandlerRegister(h) ==
    \/ RegisterFind(h, Applicants, Roles, {"O+"}, {"North"})
    \/ RegisterCreate(h)
    \/ RegisterDonor(h)

NextRegister ==
  \/ \E h \in Procs : HandlerRegister(h)
  \/ Sent

SpecRegister == InitRegister /\ [][NextRegister]_vars

----------------------------------------------------------------------------
(* Scenario: accounts.  The store holds the seeded admin, who is logged in;
   people register as user or donor while the admin changes roles and deletes
   users. *)

InitAccounts == Populated(<<SeededAdmin>>, {1}, <<>>)

HandlerAccounts(h) ==
    \/ RegisterFind(h, Applicants, {"user", "donor"}, {"O+"}, {"North"})
    \/ RegisterCreate(h)
    \/ RegisterDonor(h)
    \/ AdminSetUserRole(h, {"user", "donor"})
    \/ DeleteUser(h)
    \/ DeleteDonor(h)

NextAccounts ==
  \/ \E h \in Procs : HandlerAccounts(h)
  \/ Sent

SpecAccounts == InitAccounts /\ [][NextAccounts]_vars

----------------------------------------------------------------------------
(* Scenario: access control.  The admin, a requester and a donor, each with a
   token in hand, and callers without a valid token call the role-restricted
   routes, one call after the other; the admin's role updates leave tokens
   behind that carry the role they were issued with. *)

InitAccess == Populated(StatusUsers, {1, 2, 3}, <<>>)

\* the calls arrive one at a time: what a call is answered depends on its token
\* and on the store, not on another call in flight
NextAccess ==
  \/ \E h \in Procs :
       \/ Alone(h) /\ SubmitCreate(h, {"O+"}, {"North"}, {Undef})
       \/ Alone(h) /\ SubmitFind(h)
       \/ Alone(h) /\ SubmitInsert(h)
       \/ Alone(h) /\ ListUserRequests(h)
       \/ Alone(h) /\ DonateFind(h)
       \/ Alone(h) /\ DonateSave(h)
       \/ Alone(h) /\ DonateUser(h)
       \/ Alone(h) /\ DonateInventoryFind(h)
       \/ Alone(h) /\ DonateInventoryWrite(h)
       \/ Alone(h) /\ SetAvailability(h)
       \/ Alone(h) /\ AdminSetRequestStatus(h, {"Approved"})
       \/ Alone(h) /\ AdminSetUserRole(h, {"user"})
       \/ Alone(h) /\ AdminSetInventoryUnits(h, {"O+"})
       \/ Alone(h) /\ DeleteUser(h)
       \/ Alone(h) /\ DeleteDonor(h)
  \/ Sent

SpecAccess == InitAccess /\ [][NextAccess]_vars

----------------------------------------------------------------------------
(* Claims on the status lifecycle (SpecStatus) *)

Stamped(doc) == doc.approved_by # NoApprover

\* C1: a Request's approved_by is populated if and only if its status has been
\* Approved at some point.  Stated on steps: a request whose status is Approved
\* is stamped, a stamp is never cleared, and a stamp appears only on a request
\* whose status is Approved then.
C1_ApprovedByIffEverApproved ==
  [][\A r \in DOMAIN requests' :
       LET was == r \in DOMAIN requests /\ Stamped(requests[r]) IN
       /\ requests'[r].status = "Approved" => Stamped(requests'[r])
       /\ was => Stamped(requests'[r])
       /\ (Stamped(requests'[r]) /\ ~was) => requests'[r].status = "Approved"]_vars

\* C2: for every existing request and authenticated actor, a status update to
\* Approved answers 200 and leaves approved_by = {name, phone} of the actor's
\* User record, and an update to Fulfilled sets the status and keeps
\* approved_by as it was.
C2_ApproveStampsActor ==
  [][out'.op = "updateRequestStatus" =>
       LET id == out'.body.id
           actor == StatusUsers[out'.tok.id] IN
       /\ (out'.body.status = "Approved" /\ out'.status \notin {400, 401, 404}) =>
            /\ out'.status = 200
            /\ requests'[id].status = "Approved"
            /\ requests'[id].approved_by =
                 [name |-> actor.full_name, phone |-> actor.phone]
       /\ (out'.body.status = "Fulfilled" /\ out'.status = 200) =>
            /\ requests'[id].status = "Fulfilled"
            /\ requests'[id].approved_by = requests[id].approved_by]_vars

\* C10: a status update of an existing request with a value outside
\* {Pending, Approved, Fulfilled, Critical} answers 400 and changes nothing, and
\* every Request's status is one of the four values.
C10_StatusAlwaysValid ==
  [][/\ \A r \in DOMAIN requests' : requests'[r].status \in validStatuses
     /\ ( /\ out'.op \in {"updateRequestStatus", "adminSetRequestStatus"}
          /\ out'.status \notin {401, 403}
          /\ out'.body.id \in DOMAIN requests
          /\ out'.body.status \notin validStatuses \cup {Undef} )
        => (out'.status = 400 /\ requests' = requests)]_vars

----------------------------------------------------------------------------
(* Claims on the notification fan-out (SpecFanout) *)

\* the handler h takes a step from the store operation label
Steps(h, label) == pc[h] = label /\ pc'[h] # label

\* C3: a successful submitRequest adds exactly one Notification, addressed to
\* donors of the request's region, per User that has role donor, the request's
\* blood type and its region when the handler queries the users, and none when
\* there is no such user; nothing else of the handler adds a Notification.
C3_OneNotificationPerMatchingDonor ==
  [][\A h \in Procs :
       /\ Steps(h, "sr_find") =>
            LET match == {u \in DOMAIN users :
                            /\ users[u].role = "donor"
                            /\ users[u].blood_type = loc[h].blood_group
                            /\ users[u].region = loc[h].region} IN
            /\ notifications' = notifications
            /\ IF match = {}
               THEN out'.op = "submitRequest" /\ out'.status = 201
               ELSE pc'[h] = "sr_insert" /\ loc'[h].donorUsers = match
       /\ (Steps(h, "sr_insert") /\ out'.status = 201) =>
            /\ Len(notifications') = Len(notifications)
                                      + Cardinality(loc[h].donorUsers)
            /\ SubSeq(notifications', 1, Len(notifications)) = notifications
            /\ \A i \in (Len(notifications) + 1)..Len(notifications') :
                 notifications'[i] = [role |-> "donor", region |-> loc[h].region]]_vars

\* a request met two donors and both were notified
C3_Witness ==
  /\ out.op = "submitRequest" /\ out.status = 201
  /\ out.body = [blood_group |-> "O+", region |-> "North"]
  /\ DOMAIN users = DOMAIN FanoutUsers
  /\ notifications = <<[role |-> "donor", region |-> "North"],
                       [role |-> "donor", region |-> "North"]>>

\* C4: when Notification.insertMany fails after the Request was persisted, the
\* Request stays in the store with the fields it was created with.
C4_FailedFanoutKeepsRequest ==
  [][\A h \in Procs :
       (Steps(h, "sr_insert") /\ out'.status # 201) =>
         /\ loc[h].rid \in DOMAIN requests'
         /\ requests'[loc[h].rid] =
              [requester_id |-> loc[h].tok.id, blood_group |-> loc[h].blood_group,
               region |-> loc[h].region, status |-> "Pending",
               approved_by |-> NoApprover]]_vars

\* the insert has failed with one of two notifications written
C4_Witness ==
  /\ out.op = "submitRequest" /\ out.status = 500
  /\ Len(notifications) = 1
  /\ DOMAIN requests = {1}

\* C5: when the Request was persisted and only the notification insert failed,
\* submitRequest still answers success (201) with the created Request.
C5_FanoutFailureNotSurfaced ==
  [][\A h \in Procs :
       Steps(h, "sr_insert") =>
         (out'.op = "submitRequest" /\ out'.status = 201 /\ out'.data = loc[h].rid)]_vars

----------------------------------------------------------------------------
(* Claims on listing (SpecList) *)

\* C9: what GET /requests and GET /requests/user answer to an identity of role
\* user are requests whose requester_id is its id; what GET /requests answers
\* to an identity of role donor are requests of the region of its User record.
C9_ListingIsRoleScoped ==
  (out.op \in {"listRequests", "listUserRequests"} /\ out.status = 200) =>
    \A i \in 1..Len(out.data) :
      LET doc == requests[out.data[i]] IN
      /\ out.tok.role = "user" => doc.requester_id = out.tok.id
      /\ out.tok.role = "donor" => doc.region = ListUsers[out.tok.id].region

\* a donor of the East is answered a request while one of the North exists
C9_Witness ==
  /\ out.op = "listRequests" /\ out.status = 200
  /\ out.tok.role = "donor"
  /\ ListUsers[out.tok.id].region = "East"
  /\ Len(out.data) = 1
  /\ \E r \in DOMAIN requests : requests[r].region = "North"

----------------------------------------------------------------------------
(* Claims on donations (SpecDonationSeq, SpecDonation) *)

Units(inv, blood_type) == IF blood_type \in DOMAIN inv THEN inv[blood_type] ELSE 0

\* C6: run with no other operation interleaved, a donation of units >= 1 by a
\* donor with a Donor profile appends one entry with these units to the end of
\* the donor's donation_log and sets last_donation_date, and then adds exactly
\* units to the inventory row of the donor's blood type, created with units
\* when missing; no other donor and no other row changes.
C6_SequentialDonationCredits ==
  [][\A h \in Procs :
       LET d == loc[h].tok.id
           entry == [date |-> loc[h].newDate, units |-> loc[h].units,
                     notes |-> "Recorded via dashboard"] IN
       /\ Steps(h, "dn_save") =>
            /\ pc'[h] = "dn_user"
            /\ donors' = [donors EXCEPT
                            ![d].donation_log = Append(@, entry),
                            ![d].last_donation_date = entry.date]
            /\ inventory' = inventory
       /\ Steps(h, "dn_write") =>
            LET blood_type == DonationUsers[d].blood_type IN
            /\ out'.status = 200 /\ out'.body.units = loc[h].units
            /\ inventory' = Put(inventory, blood_type,
                                Units(inventory, blood_type) + loc[h].units)
            /\ donors' = donors
            /\ donors[d].donation_log[Len(donors[d].donation_log)] = entry]_vars

\* a second donation has raised the O+ row by its units: from 1 or 2 to 3
C6_Witness ==
  /\ out.op = "recordDonation" /\ out.status = 200
  /\ clock = 2
  /\ inventory["O+"] = 3

\* C7: two donations of one blood type in flight can lose an update.  The
\* handler writes the units it read plus its own, whatever the row holds by
\* then, and so (C7_Witness) two donors' entries are both logged while the row has
\* grown by less than their sum.
C7_InventoryWriteIsStale ==
  [][\A h \in Procs :
       (Steps(h, "dn_write") /\ loc[h].found) =>
         inventory'[loc[h].blood_type] = loc[h].available_units + loc[h].units]_vars

\* Dev and Esha, both O+, have each logged one donation and been answered, and
\* the O+ row (0 before) holds less than the two together
C7_Witness ==
  /\ \A h \in Procs : pc[h] = "idle"
  /\ Len(donors[2].donation_log) = 1
  /\ Len(donors[3].donation_log) = 1
  /\ out.op = "recordDonation" /\ out.status = 200
  /\ inventory["O+"] < donors[2].donation_log[1].units + donors[3].donation_log[1].units

----------------------------------------------------------------------------
(* Claims on registration (SpecRegister) *)

\* C8: no two Users share an email, and a valid registration with an email
\* that a User of the store holds, this call having created none, answers 409.
C8_DuplicateEmailConflict ==
  /\ \A u, v \in DOMAIN users : users[u].email = users[v].email => u = v
  /\ ( /\ out.op = "register" /\ out.status # 201
       /\ out.body.blood_type # Undef
       /\ out.body.role # "admin" => out.body.region # Undef
       /\ \E u \in DOMAIN users : users[u].email = out.body.email )
     => out.status = 409

----------------------------------------------------------------------------
(* Claims on accounts (SpecAccounts) *)

\* no handler is between its first and its last store operation
Quiescent == \A h \in Procs : pc[h] = "idle"

\* C11: whenever no operation is in progress, a Donor profile exists for a user
\* id if and only if a User with that id exists and has role donor.  (At most
\* one profile per user holds by the unique index on Donor.user_id, which keys
\* the collection here.)
C11_DonorIffDonorUser ==
  Quiescent =>
    DOMAIN donors = {u \in DOMAIN users : users[u].role = "donor"}

----------------------------------------------------------------------------
(* Claims on access control (SpecAccess) *)

\* the collections of the store
Store == <<users, donors, inventory, requests, notifications>>

\* the roles the routes are restricted to, as the claim names them
AllowedRoles ==
  [submitRequest |-> {"user"}, listUserRequests |-> {"user"},
   recordDonation |-> {"donor"}, setAvailability |-> {"donor"},
   adminSetRequestStatus |-> {"admin"}, adminSetUserRole |-> {"admin"},
   adminSetInventoryUnits |-> {"admin"}, deleteUser |-> {"admin"}]

\* C12: on every role-restricted route, a call without a valid token is
\* answered 401 and a call whose token carries a role outside the route's
\* allowed roles is answered 403, both leaving the store as it was; and every
\* step that changes the store belongs to a call whose token carries a role the
\* route allows (user for creating a Request, donor for a donation or the
\* availability, admin for the /admin operations).
C12_RestrictedRoutesGate ==
  [][/\ (out' # NoOut /\ out'.op \in DOMAIN AllowedRoles) =>
          /\ out'.tok = NoToken => (out'.status = 401 /\ Store' = Store)
          /\ (out'.tok # NoToken /\ out'.tok.role \notin AllowedRoles[out'.op]) =>
               (out'.status = 403 /\ Store' = Store)
     /\ Store' # Store =>
          LET call == IF out' # NoOut THEN out'
                      ELSE loc'[CHOOSE h \in Procs : pc'[h] # "idle"]
          IN call.tok # NoToken /\ call.tok.role \in AllowedRoles[call.op]]_vars

\* a requester's token is refused on POST /donors/donate while the store holds
\* a request and an inventory row
C12_Witness ==
  /\ out.op = "recordDonation" /\ out.status = 403 /\ out.tok.role = "user"
  /\ DOMAIN requests # {}
  /\ inventory # <<>>

----------------------------------------------------------------------------
(* Claims on donations with failures (SpecDonationFaulty) *)

\* the log entry of the donation the handler h is recording is in the stored
\* log of its donor
Logged(ds, h) ==
  \E i \in 1..Len(ds[loc[h].tok.id].donation_log) :
    ds[loc[h].tok.id].donation_log[i] =
      [date |-> loc[h].newDate, units |-> loc[h].units,
       notes |-> "Recorded via dashboard"]

\* C13: the donor's log write precedes the inventory write.  A handler goes on
\* from donor.save() only with its entry in the donor's stored log, leaving the
\* inventory as it was; the inventory changes only in the inventory write of a
\* donation, and then the donation's entry is in the donor's stored log (unless
\* the profile was deleted after the entry was written); a failure changes
\* neither collection.
C13_LogWritePrecedesInventoryWrite ==
  [][/\ \A h \in Procs :
          /\ (Steps(h, "dn_save") /\ pc'[h] # "idle") =>
               (Logged(donors', h) /\ inventory' = inventory)
          /\ (Steps(h, "dn_write") /\ inventory' # inventory) =>
               (loc[h].tok.id \in DOMAIN donors => Logged(donors, h))
          /\ (pc[h] \in {"dn_save", "dn_user", "dn_inventory", "dn_write"}
                /\ pc'[h] = "idle" /\ out'.status # 200) =>
               (donors' = donors /\ inventory' = inventory)
     /\ inventory' # inventory => \E h \in Procs : Steps(h, "dn_write")]_vars

\* a donation has failed between the two writes: Dev's entry is in the log, the
\* call was answered 500 and the O+ row holds what it held
C13_Witness ==
  /\ out.op = "recordDonation" /\ out.status = 500 /\ out.tok.id = 2
  /\ \A h \in Procs : pc[h] = "idle"
  /\ 2 \in DOMAIN donors /\ Len(donors[2].donation_log) = 1
  /\ 3 \in DOMAIN donors /\ donors[3].donation_log = <<>>
  /\ inventory = DonationInventory

====
